---- MODULE Spec2Model ----
(***************************************************************************)
(* Model of plaseek (src/plaseek/plaseek.py): the binary check, the two    *)
(* table filters, the de-duplication of structural hits and the pipeline   *)
(* driver main().                                                          *)
(*                                                                         *)
(* Numbers.  E-values are counted in units of 1e-11, so the default        *)
(* threshold 1e-10 is 10; percent identities are whole percents; accession *)
(* strings (saccver) are represented by their rank in lexicographic order. *)
(* File names are sequences of tokens: "." is the dot character and every  *)
(* other token is a non-empty run of characters without a dot.             *)
(***************************************************************************)
EXTENDS Integers, Sequences, FiniteSets

VARIABLES
    args,                   \* the parsed command line (argparse Namespace)
    pc,                     \* the stage main() is about to execute
    fs,                     \* the file system: path -> file content
    trace,                  \* the calls main() has made, in order
    foldseek_m8file,        \* local of main()
    filtered_foldseekhits,  \* local of main()
    filtered_tblastn,       \* local of main()
    error,                  \* the exception that ended the run
    fnArgs,                 \* arguments of a function called on its own
    fnResult                \* what that call returned or raised

vars == <<args, pc, fs, trace, foldseek_m8file, filtered_foldseekhits,
          filtered_tblastn, error, fnArgs, fnResult>>

mainVars == <<args, pc, fs, trace, foldseek_m8file, filtered_foldseekhits,
              filtered_tblastn, error>>

----------------------------------------------------------------------------
(* Bounds *)

MaxRows == 3

MaxStageRows == 1

MaxNameLen == 3

----------------------------------------------------------------------------
(* Tables *)

SeqsUpTo(S, n) == UNION {[1..k -> S] : k \in 0..n}

Theaders == {"seq1", "seq2"}

Tseqs == {"ATGC", "GGCC"}

EValues == {9, 10, 11}

DefaultEvalThreshold == 10

\* pident, taxid and taxname of the hit on a target
Annotation(theader) ==
    IF theader = "seq1"
    THEN [pident |-> 90, taxid |-> 562, taxname |-> "Escherichia coli"]
    ELSE [pident |-> 100, taxid |-> 573, taxname |-> "Klebsiella pneumoniae"]

\* a row of the m8 table, with the columns main() uses
M8Row(theader, evalue, tseq) ==
    [theader |-> theader, pident |-> Annotation(theader).pident,
     evalue |-> evalue, tseq |-> tseq, taxid |-> Annotation(theader).taxid,
     taxname |-> Annotation(theader).taxname]

M8Rows == {M8Row(h, e, s) : h \in Theaders, e \in EValues, s \in Tseqs}

Pidents == {97, 98, 99}

DefaultPidentThreshold == 98

TblastnRows == [qaccver : Theaders, saccver : {1, 2}, pident : Pidents]

SortColumns == {"saccver", "pident"}

\* the value of a row in a column
Column(row, col) == IF col = "saccver" THEN row.saccver ELSE row.pident

----------------------------------------------------------------------------
(* filtering_m8file *)

\* variant: the threshold itself passes
FilteringM8fileLe(rows, eval_threshold) ==
    SelectSeq(rows, LAMBDA r : r.evalue <= eval_threshold)

FilteringM8file(rows, eval_threshold) ==
    SelectSeq(rows, LAMBDA r : r.evalue < eval_threshold)

----------------------------------------------------------------------------
(* remove_duplicates *)

SeqRecord(row) ==
    [id |-> row.theader, name |-> row.theader, seq |-> row.tseq,
     description |-> <<row.pident, row.evalue, row.taxid, row.taxname>>]

RECURSIVE RemoveDuplicatesLoop(_, _, _, _)
RemoveDuplicatesLoop(hits, i, seen, nodups) ==
    IF i > Len(hits) THEN nodups
    ELSE IF hits[i].tseq \notin seen
         THEN RemoveDuplicatesLoop(hits, i + 1, seen \cup {hits[i].tseq},
                                   Append(nodups, SeqRecord(hits[i])))
         ELSE RemoveDuplicatesLoop(hits, i + 1, seen, nodups)

\* variant: duplicates recognised by theader instead of tseq
RECURSIVE RemoveDuplicatesByHeaderLoop(_, _, _, _)
RemoveDuplicatesByHeaderLoop(hits, i, seen, nodups) ==
    IF i > Len(hits) THEN nodups
    ELSE IF hits[i].theader \notin seen
         THEN RemoveDuplicatesByHeaderLoop(hits, i + 1,
                  seen \cup {hits[i].theader},
                  Append(nodups, SeqRecord(hits[i])))
         ELSE RemoveDuplicatesByHeaderLoop(hits, i + 1, seen, nodups)

RemoveDuplicatesByHeader(hits) == RemoveDuplicatesByHeaderLoop(hits, 1, {}, <<>>)

RemoveDuplicates(hits) == RemoveDuplicatesLoop(hits, 1, {}, <<>>)

----------------------------------------------------------------------------
(* filtering_by_pident *)

Permutations(n) == {p \in [1..n -> 1..n] : \A i, j \in 1..n : i # j => p[i] # p[j]}

\* every arrangement of the rows that is ascending in the column
SortedArrangements(rows, col) ==
    LET n == Len(rows)
    IN  {[k \in 1..n |-> rows[p[k]]] : p \in
           {q \in Permutations(n) : \A a, b \in 1..n :
               a < b => Column(rows[q[a]], col) <= Column(rows[q[b]], col)}}

\* variant: only the first row of each value of the column is kept
FirstOfEachValue(rows, col) ==
    LET first == {i \in 1..Len(rows) :
                     \A j \in 1..(i - 1) : Column(rows[j], col) # Column(rows[i], col)}
        F[i \in 0..Len(rows)] ==
            IF i = 0 THEN <<>>
            ELSE IF i \in first THEN Append(F[i - 1], rows[i]) ELSE F[i - 1]
    IN  F[Len(rows)]

SortValuesDropTies(rows, col) == SortedArrangements(FirstOfEachValue(rows, col), col)

\* DataFrame.sort_values(by=[col]) with the default kind="quicksort": the rows
\* come out ascending in the column; quicksort is not a stable sort, so rows
\* with equal values may come out in any order.
SortValues(rows, col) == SortedArrangements(rows, col)

\* variant: the threshold itself does not pass
PidentFilterGt(rows, pident_threshold) ==
    SelectSeq(rows, LAMBDA r : r.pident > pident_threshold)

PidentFilter(rows, pident_threshold) ==
    SelectSeq(rows, LAMBDA r : r.pident >= pident_threshold)

\* the outcomes of filtering_by_pident on a headered table: the exception it
\* raises when a column is absent, or one of the tables it may return
FilteringByPident(file, pident_threshold, sort_values) ==
    IF "pident" \notin file.cols \/ sort_values \notin file.cols
    THEN {[status |-> "raised", value |-> <<>>]}
    ELSE {[status |-> "returned", value |-> t] :
             t \in SortValues(PidentFilter(file.rows, pident_threshold), sort_values)}

TblastnColumnSets == {{"qaccver", "saccver", "pident"}, {"qaccver", "saccver"},
                      {"qaccver", "pident"}}

----------------------------------------------------------------------------
(* Paths *)

NameTokens == {"sample", ".", "pdb", "m8", "txt"}

Names == SeqsUpTo(NameTokens, MaxNameLen)

Dirs == {"", "data/"}

\* an argument that was not given (None)
NoPath == [dir |-> "None", name |-> <<>>]

InputPaths == [dir : Dirs, name : Names]

\* the position of the last dot of a name, 0 if it has none
LastDot(name) ==
    LET dots == {i \in 1..Len(name) : name[i] = "."}
    IN  IF dots = {} THEN 0 ELSE CHOOSE i \in dots : \A j \in dots : j <= i

\* pathlib: the name splits at its last dot unless that dot is the first or
\* the last character of the name
HasSuffix(name) == LastDot(name) > 1 /\ LastDot(name) < Len(name)

Suffix(path) ==
    IF HasSuffix(path.name)
    THEN SubSeq(path.name, LastDot(path.name), Len(path.name)) ELSE <<>>

Stem(path) ==
    IF HasSuffix(path.name)
    THEN SubSeq(path.name, 1, LastDot(path.name) - 1) ELSE path.name

\* a path made of a file name alone: a file of the working directory
InCwd(name) == [dir |-> "", name |-> name]

----------------------------------------------------------------------------
(* check_binaries_available *)

BinaryPaths == {"exists", "missing", "None"}

NoError == [kind |-> "", message |-> ""]

\* a call that has not been made yet
Pending == [status |-> "pending", value |-> <<>>]

Raised(kind, message) == [kind |-> kind, message |-> message]

\* variant: the check of foldseek_binary_path is left out
CheckBinariesAvailableTwoChecks(parallel_binary_path, tblastn_binary_path, foldseek_binary_path) ==
    IF parallel_binary_path = "None" THEN Raised("TypeError", "")
    ELSE IF parallel_binary_path = "missing"
    THEN Raised("FileNotFoundError", "foldseek not found. Please set PATH to foldseek.")
    ELSE IF tblastn_binary_path = "None" THEN Raised("TypeError", "")
    ELSE IF tblastn_binary_path = "missing"
    THEN Raised("FileNotFoundError", "tblastn not found. Please set PATH to tblastn.")
    ELSE NoError

\* Path(None) raises TypeError; a path that is not on disk raises
\* FileNotFoundError with the message of its check
CheckBinariesAvailable(parallel_binary_path, tblastn_binary_path, foldseek_binary_path) ==
    IF parallel_binary_path = "None" THEN Raised("TypeError", "")
    ELSE IF parallel_binary_path = "missing"
    THEN Raised("FileNotFoundError", "foldseek not found. Please set PATH to foldseek.")
    ELSE IF tblastn_binary_path = "None" THEN Raised("TypeError", "")
    ELSE IF tblastn_binary_path = "missing"
    THEN Raised("FileNotFoundError", "tblastn not found. Please set PATH to tblastn.")
    ELSE IF foldseek_binary_path = "None" THEN Raised("TypeError", "")
    ELSE IF foldseek_binary_path = "missing"
    THEN Raised("FileNotFoundError", "parallel not found. Please set PATH to parallel.")
    ELSE NoError

----------------------------------------------------------------------------
(* main *)

\* the options the parser declares, as attributes of args
ArgsAttributes ==
    {"parallel_binary_path", "tblastn_binary_path", "foldseek_binary_path",
     "input", "foldseek_db_path", "target_sequence_db_path", "evalue", "block",
     "jobs", "outfile_path"}

OutfilePaths == {"plasmids.fasta", "None"}

\* what the external programs may write
StageM8Rows == {M8Row("seq1", e, s) : e \in EValues, s \in Tseqs}

StageM8Files ==
    {[kind |-> "m8", cols |-> {}, rows |-> t] : t \in SeqsUpTo(StageM8Rows, MaxStageRows)}

StageTblastnRows == [qaccver : {"seq1"}, saccver : {1, 2}, pident : Pidents]

StageTblastnFiles ==
    {[kind |-> "tsv", cols |-> {"qaccver", "saccver", "pident"}, rows |-> t] :
        t \in SeqsUpTo(StageTblastnRows, MaxStageRows)}
    \cup {[kind |-> "tsv", cols |-> c, rows |-> <<>>] : c \in TblastnColumnSets}

OtherFile == [kind |-> "other", cols |-> {}, rows |-> <<>>]

Write(f, path, content) ==
    [q \in DOMAIN f \cup {path} |-> IF q = path THEN content ELSE f[q]]

Call(op, file, status, table) ==
    [op |-> op, file |-> file, status |-> status, table |-> table]

Abort(e) ==
    /\ pc' = "aborted"
    /\ error' = e

\* variant: every suffix other than .pdb is taken for a hit table
EntryStageElse(input) ==
    IF Suffix(input) = <<".", "pdb">> THEN "structural_search"
    ELSE "filter_structural_hits"

\* the branch taken on the suffix of the input
EntryStage(input) ==
    IF Suffix(input) = <<".", "pdb">> THEN "structural_search"
    ELSE IF Suffix(input) = <<".", "m8">> THEN "filter_structural_hits"
    ELSE "aborted"

\* variant: <stem>.m8 is used for a hit-table input too
FoldseekM8fileFromStem(input) == InCwd(Stem(input) \o <<".", "m8">>)

\* the value main() gives foldseek_m8file
FoldseekM8file(input) ==
    IF Suffix(input) = <<".", "pdb">>
    THEN InCwd(Stem(input) \o <<".", "m8">>)
    ELSE input

NodupFasta(input) == InCwd(Stem(input) \o <<"_nodup", ".", "fasta">>)

TblastnResult(input) == InCwd(Stem(input) \o <<"_tblastn", ".", "tsv">>)

\* variant: the exception of a stage is swallowed
AfterStageIgnoringFailure(status, next) == next

\* no try/except around a stage: an exception of the stage ends main()
AfterStage(status, next) == IF status = "returned" THEN next ELSE "aborted"

InitialFiles(input) ==
    IF input = NoPath THEN {<<>>}
    ELSE {<<>>} \cup
         {Write(<<>>, input, c) :
             c \in IF Suffix(input) = <<".", "m8">> THEN StageM8Files ELSE {OtherFile}}

Init ==
    /\ args \in [parallel_binary_path : BinaryPaths, tblastn_binary_path : BinaryPaths,
                  foldseek_binary_path : BinaryPaths,
                  input : InputPaths \cup {NoPath}, outfile_path : OutfilePaths]
    /\ pc = "check_binaries"
    /\ fs \in InitialFiles(args.input)
    /\ trace = <<>>
    /\ foldseek_m8file = NoPath
    /\ filtered_foldseekhits = <<>>
    /\ filtered_tblastn = <<>>
    /\ error = NoError
    /\ fnArgs = [fn |-> "main"]
    /\ fnResult = Pending

CheckBinaries ==
    /\ pc = "check_binaries"
    /\ LET e == CheckBinariesAvailable(args.parallel_binary_path,
                                       args.tblastn_binary_path,
                                       args.foldseek_binary_path)
       IN  /\ pc' = IF e = NoError THEN "determine_entry" ELSE "aborted"
           /\ error' = e
    /\ UNCHANGED <<args, fs, trace, foldseek_m8file, filtered_foldseekhits,
                   filtered_tblastn, fnArgs, fnResult>>

DetermineEntry ==
    /\ pc = "determine_entry"
    /\ IF args.input = NoPath
       THEN /\ Abort(Raised("TypeError", ""))
            /\ UNCHANGED foldseek_m8file
       ELSE IF EntryStage(args.input) = "aborted"
       THEN /\ Abort(Raised("ValueError",
                   "Invalid input file suffix: the suffix must be .pdb or .m8."))
            /\ UNCHANGED foldseek_m8file
       ELSE /\ pc' = EntryStage(args.input)
            /\ foldseek_m8file' = FoldseekM8file(args.input)
            /\ UNCHANGED error
    /\ UNCHANGED <<args, fs, trace, filtered_foldseekhits, filtered_tblastn,
                   fnArgs, fnResult>>

\* run_foldseek reads the structure file and writes outtsvfile, or raises
RunFoldseek(pdbfile, outtsvfile) ==
    {[status |-> "returned", fs |-> Write(fs, outtsvfile, c)] :
        c \in IF pdbfile \in DOMAIN fs THEN StageM8Files ELSE {}}
    \cup {[status |-> "raised", fs |-> fs]}

StructuralSearch ==
    /\ pc = "structural_search"
    /\ \E r \in RunFoldseek(args.input, foldseek_m8file) :
          /\ trace' = Append(trace, Call("run_foldseek", foldseek_m8file, r.status, <<>>))
          /\ fs' = r.fs
          /\ pc' = AfterStage(r.status, "filter_structural_hits")
          /\ error' = IF r.status = "returned" THEN error
                      ELSE Raised("CalledProcessError", "")
    /\ UNCHANGED <<args, foldseek_m8file, filtered_foldseekhits, filtered_tblastn,
                   fnArgs, fnResult>>

FilterStructuralHits ==
    /\ pc = "filter_structural_hits"
    /\ IF foldseek_m8file \in DOMAIN fs
       THEN /\ trace' = Append(trace,
                    Call("filtering_m8file", foldseek_m8file, "returned", <<>>))
            /\ filtered_foldseekhits' =
                   FilteringM8file(fs[foldseek_m8file].rows, DefaultEvalThreshold)
            /\ pc' = "dedup_and_write_fasta"
            /\ UNCHANGED error
       ELSE /\ trace' = Append(trace,
                    Call("filtering_m8file", foldseek_m8file, "raised", <<>>))
            /\ Abort(Raised("FileNotFoundError", ""))
            /\ UNCHANGED filtered_foldseekhits
    /\ UNCHANGED <<args, fs, foldseek_m8file, filtered_tblastn, fnArgs, fnResult>>

DedupAndWriteFasta ==
    /\ pc = "dedup_and_write_fasta"
    /\ fs' = Write(fs, NodupFasta(args.input),
                   [kind |-> "fasta", cols |-> {},
                    rows |-> RemoveDuplicates(filtered_foldseekhits)])
    /\ trace' = Append(trace,
           Call("remove_duplicates", NodupFasta(args.input), "returned", <<>>))
    /\ pc' = "translated_search"
    /\ UNCHANGED <<args, foldseek_m8file, filtered_foldseekhits, filtered_tblastn,
                   error, fnArgs, fnResult>>

\* run_tblastn reads input_fasta and writes outfile, or raises
RunTblastn(input_fasta, outfile) ==
    {[status |-> "returned", fs |-> Write(fs, outfile, c)] :
        c \in IF input_fasta \in DOMAIN fs THEN StageTblastnFiles ELSE {}}
    \cup {[status |-> "raised", fs |-> fs]}

TranslatedSearch ==
    /\ pc = "translated_search"
    /\ \E r \in RunTblastn(NodupFasta(args.input), TblastnResult(args.input)) :
          /\ trace' = Append(trace,
                 Call("run_tblastn", TblastnResult(args.input), r.status, <<>>))
          /\ fs' = r.fs
          /\ pc' = AfterStage(r.status, "filter_translated_hits")
          /\ error' = IF r.status = "returned" THEN error
                      ELSE Raised("CalledProcessError", "")
    /\ UNCHANGED <<args, foldseek_m8file, filtered_foldseekhits, filtered_tblastn,
                   fnArgs, fnResult>>

FilterTranslatedHits ==
    /\ pc = "filter_translated_hits"
    /\ \E r \in FilteringByPident(fs[TblastnResult(args.input)],
                                   DefaultPidentThreshold, "saccver") :
          /\ trace' = Append(trace,
                 Call("filtering_by_pident", TblastnResult(args.input), r.status, <<>>))
          /\ filtered_tblastn' = r.value
          /\ pc' = IF r.status = "returned" THEN "extract_final_records" ELSE "aborted"
          /\ error' = IF r.status = "returned" THEN error ELSE Raised("KeyError", "")
    /\ UNCHANGED <<args, fs, foldseek_m8file, filtered_foldseekhits, fnArgs, fnResult>>

\* run_blastdbcmd writes outfile, or raises
RunBlastdbcmd(outfile) ==
    {[status |-> "returned", fs |-> Write(fs, InCwd(<<outfile>>), OtherFile)],
     [status |-> "raised", fs |-> fs]}

\* the arguments of the call are evaluated before the call is made: an
\* attribute that args does not have raises AttributeError there
ExtractFinalRecords ==
    /\ pc = "extract_final_records"
    /\ IF "blastdbcmd_binary_path" \notin ArgsAttributes
       THEN /\ Abort(Raised("AttributeError",
                   "'Namespace' object has no attribute 'blastdbcmd_binary_path'"))
            /\ UNCHANGED <<fs, trace>>
       ELSE \E r \in RunBlastdbcmd(args.outfile_path) :
               /\ trace' = Append(trace,
                      Call("run_blastdbcmd", InCwd(<<args.outfile_path>>), r.status,
                           filtered_tblastn))
               /\ fs' = r.fs
               /\ pc' = AfterStage(r.status, "done")
               /\ error' = IF r.status = "returned" THEN error
                           ELSE Raised("CalledProcessError", "")
    /\ UNCHANGED <<args, foldseek_m8file, filtered_foldseekhits, filtered_tblastn,
                   fnArgs, fnResult>>

Next ==
    \/ CheckBinaries
    \/ DetermineEntry
    \/ StructuralSearch
    \/ FilterStructuralHits
    \/ DedupAndWriteFasta
    \/ TranslatedSearch
    \/ FilterTranslatedHits
    \/ ExtractFinalRecords

Spec == Init /\ [][Next]_vars

----------------------------------------------------------------------------
(* The functions called on their own *)

Idle ==
    /\ args = [parallel_binary_path |-> "None", tblastn_binary_path |-> "None",
               foldseek_binary_path |-> "None", input |-> NoPath,
               outfile_path |-> "None"]
    /\ pc = "idle"
    /\ fs = <<>>
    /\ trace = <<>>
    /\ foldseek_m8file = NoPath
    /\ filtered_foldseekhits = <<>>
    /\ filtered_tblastn = <<>>
    /\ error = NoError

InitFilteringM8 ==
    /\ Idle
    /\ fnArgs \in [rows : SeqsUpTo(M8Rows, MaxRows), eval_threshold : EValues]
    /\ fnResult = Pending

CallFilteringM8file ==
    /\ fnResult.status = "pending"
    /\ fnResult' = [status |-> "returned",
                    value |-> FilteringM8file(fnArgs.rows, fnArgs.eval_threshold)]
    /\ UNCHANGED <<mainVars, fnArgs>>

SpecFilteringM8 == InitFilteringM8 /\ [][CallFilteringM8file]_vars

InitRemoveDuplicates ==
    /\ Idle
    /\ fnArgs \in [hits : SeqsUpTo(M8Rows, MaxRows)]
    /\ fnResult = Pending

CallRemoveDuplicates ==
    /\ fnResult.status = "pending"
    /\ fnResult' = [status |-> "returned", value |-> RemoveDuplicates(fnArgs.hits)]
    /\ UNCHANGED <<mainVars, fnArgs>>

SpecRemoveDuplicates == InitRemoveDuplicates /\ [][CallRemoveDuplicates]_vars

InitFilteringByPident ==
    /\ Idle
    /\ fnArgs \in [infile : [cols : TblastnColumnSets,
                             rows : SeqsUpTo(TblastnRows, MaxRows)],
                   pident_threshold : Pidents,
                   sort_values : SortColumns]
    /\ fnResult = Pending

CallFilteringByPident ==
    /\ fnResult.status = "pending"
    /\ fnResult' \in FilteringByPident(fnArgs.infile, fnArgs.pident_threshold,
                                       fnArgs.sort_values)
    /\ UNCHANGED <<mainVars, fnArgs>>

SpecFilteringByPident == InitFilteringByPident /\ [][CallFilteringByPident]_vars

----------------------------------------------------------------------------
(* Properties of main *)

\* the positions of the calls of an operation in the trace
Calls(op) == {k \in 1..Len(trace) : trace[k].op = op}

ExternalStages == {"run_foldseek", "run_tblastn", "run_blastdbcmd"}

BinaryArgs == <<args.parallel_binary_path, args.tblastn_binary_path,
                args.foldseek_binary_path>>

AllBinariesExist == \A i \in 1..3 : BinaryArgs[i] = "exists"

\* the first of the three paths, in the order of the parameters, that is not
\* an existing file
FirstNotOnDisk ==
    CHOOSE i \in 1..3 :
        /\ BinaryArgs[i] # "exists"
        /\ \A j \in 1..(i - 1) : BinaryArgs[j] = "exists"

\* the tool each parameter of check_binaries_available belongs to
ToolOf == <<"parallel", "tblastn", "foldseek">>

NotFoundMessage(tool) ==
    IF tool = "parallel" THEN "parallel not found. Please set PATH to parallel."
    ELSE IF tool = "tblastn" THEN "tblastn not found. Please set PATH to tblastn."
    ELSE "foldseek not found. Please set PATH to foldseek."

NotFoundMessages == {NotFoundMessage(ToolOf[i]) : i \in 1..3}

InputGiven == args.input # NoPath

Supported == {<<".", "pdb">>, <<".", "m8">>}

\* C1: when the binaries exist, the suffix is .pdb or .m8 and every earlier
\* stage has succeeded, the finished run has called run_blastdbcmd exactly
\* once, after filtering_by_pident, with the table filtering_by_pident
\* returned and the --outfile-path of the command line.
C1_FinalStageInvokedOnce ==
    (/\ pc \in {"done", "aborted"}
     /\ AllBinariesExist
     /\ InputGiven
     /\ Suffix(args.input) \in Supported
     /\ \E k \in Calls("filtering_by_pident") : trace[k].status = "returned")
    => /\ Cardinality(Calls("run_blastdbcmd")) = 1
       /\ \A k \in Calls("run_blastdbcmd") :
              /\ \A j \in Calls("filtering_by_pident") : j < k
              /\ trace[k].table = filtered_tblastn
              /\ trace[k].file = InCwd(<<args.outfile_path>>)

\* C2: when the three paths are given and one of them is not on disk, the
\* error of check_binaries_available names the tool of the first path that
\* is not on disk; when all three exist, it raises nothing.
C2_ErrorNamesMissingTool ==
    (pc # "check_binaries" /\ \A i \in 1..3 : BinaryArgs[i] # "None") =>
        IF AllBinariesExist
        THEN error.message \notin NotFoundMessages
        ELSE /\ error.kind = "FileNotFoundError"
             /\ error.message = NotFoundMessage(ToolOf[FirstNotOnDisk])

\* C3: when one of the three binary paths is not an existing file, main()
\* ends in check_binaries_available: nothing is called, no table is
\* filtered and no file is written, whatever the input is.  The error is
\* the binary-not-found error when the first such path is a path that is not
\* on disk, and the TypeError of Path(None) when it was not given at all.
C3_MissingBinaryStopsBeforeAnyStage ==
    ~AllBinariesExist =>
        /\ pc \in {"check_binaries", "aborted"}
        /\ trace = <<>>
        /\ DOMAIN fs \subseteq {args.input}
        /\ filtered_foldseekhits = <<>> /\ filtered_tblastn = <<>>
        /\ pc = "aborted" =>
              IF BinaryArgs[FirstNotOnDisk] = "missing"
              THEN error.kind = "FileNotFoundError" /\ error.message \in NotFoundMessages
              ELSE error.kind = "TypeError"

\* only the foldseek binary is missing, the input is an existing .pdb file,
\* and the run has ended with the binary-not-found error
C3_Witness ==
    /\ pc = "aborted"
    /\ BinaryArgs = <<"exists", "exists", "missing">>
    /\ args.input = InCwd(<<"sample", ".", "pdb">>)
    /\ args.input \in DOMAIN fs
    /\ error.kind = "FileNotFoundError"

\* C4: for an input whose suffix is neither .pdb nor .m8, main() goes no
\* further than the entry determination: nothing is called, no table is
\* filtered, no file is written, and a run that passed the binary check ends
\* with the ValueError of the unsupported suffix.
C4_UnsupportedSuffixStops ==
    (InputGiven /\ Suffix(args.input) \notin Supported) =>
        /\ pc \in {"check_binaries", "determine_entry", "aborted"}
        /\ trace = <<>>
        /\ DOMAIN fs \subseteq {args.input}
        /\ filtered_foldseekhits = <<>> /\ filtered_tblastn = <<>>
        /\ (pc = "aborted" /\ AllBinariesExist) => error.kind = "ValueError"

\* sample.txt exists, the binaries exist, and the run has ended with the
\* ValueError
C4_Witness ==
    /\ pc = "aborted"
    /\ AllBinariesExist
    /\ args.input = InCwd(<<"sample", ".", "txt">>)
    /\ args.input \in DOMAIN fs
    /\ error.kind = "ValueError"

StemM8 == InCwd(Stem(args.input) \o <<".", "m8">>)

\* C5: for a .pdb input run_foldseek is called once, first, with output
\* <stem>.m8, and filtering_m8file reads <stem>.m8 only after that call has
\* returned; for a .m8 input run_foldseek is never called and
\* filtering_m8file reads the input path itself.
C5_EntryDetermination ==
    InputGiven =>
        /\ Suffix(args.input) = <<".", "pdb">> =>
              /\ Calls("run_foldseek") = IF trace = <<>> THEN {} ELSE {1}
              /\ \A k \in Calls("run_foldseek") : trace[k].file = StemM8
              /\ \A k \in Calls("filtering_m8file") :
                     /\ trace[k].file = StemM8
                     /\ \E j \in Calls("run_foldseek") :
                            j < k /\ trace[j].status = "returned"
              /\ pc \in {"filter_structural_hits", "dedup_and_write_fasta",
                          "translated_search", "filter_translated_hits",
                          "extract_final_records", "done"}
                    => Cardinality(Calls("run_foldseek")) = 1
        /\ Suffix(args.input) = <<".", "m8">> =>
              /\ Calls("run_foldseek") = {}
              /\ pc # "structural_search"
              /\ \A k \in Calls("filtering_m8file") : trace[k].file = args.input
              /\ pc \in {"dedup_and_write_fasta", "translated_search",
                          "filter_translated_hits", "extract_final_records", "done"}
                    => Cardinality(Calls("filtering_m8file")) = 1

\* data/sample.pdb: run_foldseek has written sample.m8 and filtering_m8file
\* has read it
C5_Witness ==
    /\ args.input = [dir |-> "data/", name |-> <<"sample", ".", "pdb">>]
    /\ Len(trace) >= 2
    /\ trace[1] = Call("run_foldseek", InCwd(<<"sample", ".", "m8">>), "returned", <<>>)
    /\ trace[2] = Call("filtering_m8file", InCwd(<<"sample", ".", "m8">>), "returned", <<>>)

\* the calls that write a file
Writers == {"run_foldseek", "remove_duplicates", "run_tblastn", "run_blastdbcmd"}

\* C6: an external stage that raises ends the run there: its call is the
\* last of the trace and the run is aborted with its error; no operation is
\* called twice; and every file a call has written is still there.
C6_StageFailureAborts ==
    /\ \A k, j \in 1..Len(trace) : trace[k].op = trace[j].op => k = j
    /\ \A k \in 1..Len(trace) :
           (trace[k].op \in ExternalStages /\ trace[k].status = "raised") =>
               /\ k = Len(trace)
               /\ pc = "aborted"
               /\ error.kind = "CalledProcessError"
    /\ \A k \in 1..Len(trace) :
           (trace[k].op \in Writers /\ trace[k].status = "returned") =>
               trace[k].file \in DOMAIN fs

\* run_tblastn has raised after sample.m8 and sample_nodup.fasta were
\* written: the run is aborted and both files are still there
C6_Witness ==
    /\ pc = "aborted"
    /\ args.input = InCwd(<<"sample", ".", "pdb">>)
    /\ Len(trace) = 4
    /\ trace[4].op = "run_tblastn" /\ trace[4].status = "raised"
    /\ {InCwd(<<"sample", ".", "m8">>), InCwd(<<"sample", "_nodup", ".", "fasta">>)}
           \subseteq DOMAIN fs
    /\ fs[InCwd(<<"sample", "_nodup", ".", "fasta">>)].rows # <<>>

----------------------------------------------------------------------------
(* Properties of the functions *)

Range(s) == {s[i] : i \in 1..Len(s)}

Count(s, x) == Cardinality({i \in 1..Len(s) : s[i] = x})

\* the k-th smallest element of a set of numbers
NthOf(S, k) == CHOOSE i \in S : Cardinality({j \in S : j <= i}) = k

\* C7: filtering_m8file returns exactly the rows whose e-value is strictly
\* below the threshold, in their input order (a row at the threshold is
\* dropped); an empty table gives an empty table and no error.
C7_FilterKeepsExactlyBelowThreshold ==
    fnResult.status # "pending" =>
        LET rows == fnArgs.rows
            out == fnResult.value
            kept == {i \in 1..Len(rows) : rows[i].evalue < fnArgs.eval_threshold}
        IN  /\ fnResult.status = "returned"
            /\ Len(out) = Cardinality(kept)
            /\ \A k \in 1..Len(out) : out[k] = rows[NthOf(kept, k)]
            /\ \A k \in 1..Len(out) : out[k].evalue # fnArgs.eval_threshold
            /\ (rows = <<>> => out = <<>>)

\* two rows are kept around a dropped row whose e-value equals the threshold
C7_Witness ==
    /\ fnResult.status = "returned"
    /\ Len(fnArgs.rows) = 3
    /\ fnArgs.rows[2].evalue = fnArgs.eval_threshold
    /\ fnResult.value = <<fnArgs.rows[1], fnArgs.rows[3]>>
    /\ fnArgs.rows[1] # fnArgs.rows[3]

\* the first row of the table that carries the sequence
FirstRowWith(hits, tseq) ==
    CHOOSE i \in 1..Len(hits) :
        /\ hits[i].tseq = tseq
        /\ \A j \in 1..(i - 1) : hits[j].tseq # tseq

\* C8: remove_duplicates emits no more records than rows, no sequence twice,
\* one record for every sequence of the table, built from the first row that
\* carries it (its theader as id, its pident, evalue, taxid and taxname in
\* the description), in first-occurrence order.
C8_DedupKeepsFirstOccurrence ==
    fnResult.status # "pending" =>
        LET hits == fnArgs.hits
            out == fnResult.value
        IN  /\ fnResult.status = "returned"
            /\ Len(out) <= Len(hits)
            /\ \A a, b \in 1..Len(out) : a # b => out[a].seq # out[b].seq
            /\ {out[a].seq : a \in 1..Len(out)} = {hits[i].tseq : i \in 1..Len(hits)}
            /\ \A a \in 1..Len(out) :
                   LET row == hits[FirstRowWith(hits, out[a].seq)]
                   IN  /\ out[a].id = row.theader
                       /\ out[a].description =
                              <<row.pident, row.evalue, row.taxid, row.taxname>>
            /\ \A a, b \in 1..Len(out) :
                   a < b => FirstRowWith(hits, out[a].seq) < FirstRowWith(hits, out[b].seq)

\* "ATGC" under header seq1, another sequence, then "ATGC" again under seq2:
\* two records come out and the one for "ATGC" has id seq1
C8_Witness ==
    /\ fnResult.status = "returned"
    /\ Len(fnArgs.hits) = 3
    /\ fnArgs.hits[1].tseq = "ATGC" /\ fnArgs.hits[1].theader = "seq1"
    /\ fnArgs.hits[2].tseq = "GGCC"
    /\ fnArgs.hits[3].tseq = "ATGC" /\ fnArgs.hits[3].theader = "seq2"
    /\ Len(fnResult.value) = 2
    /\ fnResult.value[1].id = "seq1" /\ fnResult.value[1].seq = "ATGC"

HasColumns == {"pident", fnArgs.sort_values} \subseteq fnArgs.infile.cols

\* the rows of the table given to filtering_by_pident that reach the threshold
AtOrAboveThreshold ==
    SelectSeq(fnArgs.infile.rows, LAMBDA r : ~(r.pident < fnArgs.pident_threshold))

SortKey(row) == Column(row, fnArgs.sort_values)

\* C9: on a table that has the pident column and the sort column,
\* filtering_by_pident returns exactly the rows with pident >= the threshold
\* (each as often as it occurs), ascending in the sort column.
C9_PidentFilterExactAndAscending ==
    (fnResult.status # "pending" /\ HasColumns) =>
        LET out == fnResult.value
        IN  /\ fnResult.status = "returned"
            /\ \A r \in TblastnRows :
                   Count(out, r) = IF r.pident >= fnArgs.pident_threshold
                                   THEN Count(fnArgs.infile.rows, r) ELSE 0
            /\ \A a, b \in 1..Len(out) : a < b => SortKey(out[a]) <= SortKey(out[b])

\* a row at the threshold is kept, a row below it is dropped, and the kept
\* rows had to be reordered
C9_Witness ==
    /\ fnResult.status = "returned"
    /\ Len(fnArgs.infile.rows) = 3
    /\ fnArgs.infile.rows[1].pident = fnArgs.pident_threshold
    /\ fnArgs.infile.rows[2].pident < fnArgs.pident_threshold
    /\ SortKey(fnArgs.infile.rows[3]) < SortKey(fnArgs.infile.rows[1])
    /\ fnResult.value = <<fnArgs.infile.rows[3], fnArgs.infile.rows[1]>>

\* the rows of a sequence that have the value in the sort column
Tied(s, value) == SelectSeq(s, LAMBDA r : SortKey(r) = value)

SortKeys == {SortKey(r) : r \in TblastnRows}

====
